---------------------------- MODULE Spec2Model ----------------------------
(***************************************************************************)
(* Presentation pacing of numbat: the Decoder (labeling_tool/decoder.py)   *)
(* and the VideoTimer (labeling_tool/VideoTimer.py), bound to a renderer.  *)
(*                                                                         *)
(* Every Qt connection of the repository is a direct connection between    *)
(* objects of the GUI thread, so a slot runs inside the emit that calls    *)
(* it.  A request that has been emitted and whose slot has not returned    *)
(* yet is kept in a channel variable (decodeReq, decodedQ, prepareReq,     *)
(* renderReq) so that time can pass while the decoder or the renderer      *)
(* works; the event loop is idle, and can dispatch a user call or a timer  *)
(* timeout, only when every channel is empty (Quiescent).                  *)
(* start and stop alternate, as the play button calls them                 *)
(* (numbat/mainwindow.py, _on_play); `run` records which comes next.       *)
(*                                                                         *)
(* Time is in milliseconds.  Stream timestamps are in time-base units of   *)
(* 1/UnitsPerSec seconds.  int(pt_sec * 1000) is modelled with exact       *)
(* rational arithmetic; float rounding is not modelled.                    *)
(***************************************************************************)
EXTENDS Integers, Sequences, FiniteSets, TLC

\* ------------------------------------------------------------- bounds
MaxTime == 60
Quantum == 10
MaxSeeks == 2
MaxResumes == 2

\* ---------------------------------------------------------- constants
LookaheadMs == 30
UnitsPerSec == 2000
NoSeek == -1

\* ------------------------------------------------------------ streams
Frame(p, f, k) == [pts |-> p, fmt |-> f, key |-> k]

StreamA ==
  << Frame(0, "yuv420p", TRUE), Frame(41, "yuvj420p", FALSE),
     Frame(40, "yuv420p", TRUE), Frame(100, "yuv420p", FALSE) >>

StreamB ==
  << Frame(80, "yuv420p", TRUE), Frame(120, "yuvj420p", TRUE),
     Frame(100, "rgb24", FALSE) >>

\* a video in a format that is not accepted
StreamC ==
  << Frame(60, "rgb24", TRUE), Frame(100, "rgb24", FALSE) >>

Streams == {StreamA, StreamB, StreamC}

SeekTargets == {0, 90}

VARIABLES
  now,                \* monotonic time, ms
  clock,              \* AlignableTimer: [valid, base, t0]
  timer,              \* QTimer: [active, due]
  last_presented_at,  \* VideoTimer._last_presented_at
  present_at,         \* VideoTimer._present_at
  stream,             \* the frames of the opened container
  pos,                \* index of the next frame the decode generator yields
  closed,             \* Decoder._container is None
  seekSlot,           \* Decoder._seek (NoSeek for None)
  decodeReq,          \* decode signals emitted, on_decode not yet returned
  decodedQ,           \* decoded signals emitted, on_decoded not yet run
  prepareReq,         \* prepare signals emitted, prepared not yet handled
  renderReq,          \* render signals emitted, rendered not yet handled
  tex,                \* renderer: id of the frame held in the textures
  run,                \* "idle", "playing" or "paused" (the play button)
  nextId,             \* number of decoded events emitted so far
  seeks,              \* number of seek calls so far
  resumes,            \* number of start calls so far
  ev,                 \* the last handler that ran and what it did
  hist,               \* observation history used by the properties
  plane,              \* a VideoPlane of a decoded frame
  arr                 \* what Decoder._remove_padding returned for it

vars ==
  << now, clock, timer, last_presented_at, present_at, stream, pos, closed,
     seekSlot, decodeReq, decodedQ, prepareReq, renderReq, tex, run, nextId,
     seeks, resumes, ev, hist, plane, arr >>

pacerVars == << clock, timer, last_presented_at, present_at >>
decoderVars == << pos, closed, seekSlot >>
chanVars == << decodeReq, decodedQ, prepareReq, renderReq >>
media == << stream, plane, arr >>

\* ------------------------------------------------------------ helpers
IntTrunc(n, d) == IF n >= 0 THEN n \div d ELSE -((-n) \div d)

\* int(pt_sec * 1000) with pt_sec = pts / UnitsPerSec
MsOf(pts) == IntTrunc(pts * 1000, UnitsPerSec)

\* AlignableTimer.elapsed(); only read when the clock has been started
Elapsed == clock.base + (now - clock.t0)

\* AlignableTimer.start(ms)
ClockStart(ms) == [valid |-> TRUE, base |-> ms, t0 |-> now]

Outstanding == decodeReq + Len(decodedQ) + Len(prepareReq) + renderReq

\* the event loop is idle: no slot is on the call stack
Quiescent == Outstanding = 0

Canonical ==
  << "decode", "decoded", "prepare", "prepared", "render", "rendered" >>

SkipCycle == << "decode", "decoded" >>

IsPrefix(s, t) == Len(s) <= Len(t) /\ SubSeq(t, 1, Len(s)) = s

Count(s, x) == Cardinality({i \in 1..Len(s) : s[i] = x})

Ev(op, out) ==
  [op |-> op, out |-> out, pts |-> 0, seeked |-> FALSE, id |-> 0, rem |-> 0]

\* what hist remembers of a decoded event and of a render request
NoDecoded ==
  [id |-> 0, ms |-> 0, seeked |-> FALSE, skipped |-> FALSE,
   rendered |-> FALSE, t |-> 0]

NoRender == [id |-> 0, last |-> 0, seeked |-> FALSE, afterSeek |-> FALSE]

\* a decode request is issued by `by`: the cycle that ends is remembered
IssueDecode(h, by) ==
  [h EXCEPT !.prevCycle = h.cycle, !.prevBy = by, !.cycle = << "decode" >>]

Note(h, e) == [h EXCEPT !.cycle = Append(h.cycle, e)]

\* ---------------------------------------------------------------- Init
\* the state after construction, for a container holding one of `ss`
InitOn(ss) ==
  /\ now = 0
  /\ clock = [valid |-> FALSE, base |-> 0, t0 |-> 0]
  /\ timer = [active |-> FALSE, due |-> 0]
  /\ last_presented_at = -1
  /\ present_at = 0
  /\ stream \in ss
  /\ pos = 1
  /\ closed = FALSE
  /\ seekSlot = NoSeek
  /\ decodeReq = 0
  /\ decodedQ = << >>
  /\ prepareReq = << >>
  /\ renderReq = 0
  /\ tex = 0
  /\ run = "idle"
  /\ nextId = 0
  /\ seeks = 0
  /\ resumes = 0
  /\ ev = Ev("init", "none")
  /\ hist = [cycle |-> << >>, prevCycle |-> << >>, prevBy |-> "none",
             d0 |-> NoDecoded, d1 |-> NoDecoded,
             r0 |-> NoRender, r1 |-> NoRender, seekSince |-> FALSE,
             forwarded |-> << >>, rendered |-> << >>,
             finished |-> 0, seekLog |-> << >>, reqs |-> << >>,
             errors |-> 0, halted |-> FALSE]

\* the arrays before any plane was handed to _remove_padding
NoPlane == [line_size |-> 0, width |-> 0, buf |-> << >>]
NoArr == [st |-> "none", rows |-> << >>]

Init == InitOn(Streams) /\ plane = NoPlane /\ arr = NoArr

\* ------------------------------------------------------------ Decoder
\* is_closed that never reports a closed decoder
is_closed_never == FALSE

\* Decoder.is_closed()
is_closed == closed

\* seek that keeps an unconsumed earlier target
SeekStoreFirst(to) == IF seekSlot = NoSeek THEN to ELSE seekSlot

\* Decoder.seek(to): the value stored in the single slot
SeekStore(to) == to

\* container.seek(to, stream=video[0]): the key frame at or before `to`
SeekPos(to) ==
  LET ks == {i \in 1..Len(stream) : stream[i].key /\ stream[i].pts <= to}
  IN  IF ks = {} THEN 1 ELSE CHOOSE i \in ks : \A j \in ks : j <= i

\* a format check that accepts yuv420p alone
SupportedStdOnly(f) == f.fmt = "yuv420p"

\* Decoder.on_decode: frame.format.name in ["yuv420p", "yuvj420p"]
Supported(f) == f.fmt \in {"yuv420p", "yuvj420p"}

\* a seek flag read after the slot has been cleared
SeekPendingNever == FALSE

\* Decoder.on_decode: seeked = self._seek is not None
SeekPending == seekSlot # NoSeek

\* a seek that cancels an armed deadline
SeekTimerCancel == [active |-> FALSE, due |-> timer.due]

\* Decoder.seek, reached from MainWindow._on_seeked: the QTimer of the
\* VideoTimer is not touched
SeekTimer == timer

\* Decoder.seek, called from the event loop
seek ==
  /\ Quiescent
  /\ run # "idle"
  /\ seeks < MaxSeeks
  /\ \E to \in SeekTargets :
       /\ seekSlot' = SeekStore(to)
       /\ hist' = [hist EXCEPT !.reqs = Append(@, to)]
       /\ ev' = [Ev("seek", "none") EXCEPT !.pts = to]
  /\ seeks' = seeks + 1
  /\ timer' = SeekTimer
  /\ UNCHANGED << now, clock, last_presented_at, present_at, media, pos,
                  closed, chanVars, tex, run, nextId, resumes >>

\* Decoder.close, called from the event loop; on a closed decoder
\* self._container is None and self._container.close() raises
close ==
  /\ Quiescent
  /\ run # "idle"
  /\ IF closed
       THEN /\ ev' = Ev("close", "AttributeError")
            /\ UNCHANGED << closed, seekSlot >>
       ELSE /\ closed' = TRUE
            /\ seekSlot' = NoSeek
            /\ ev' = Ev("close", "none")
  /\ UNCHANGED << now, pacerVars, media, pos, chanVars, tex, run, nextId,
                  seeks, resumes, hist >>

\* Decoder.on_decode, the slot of the decode signal
on_decode ==
  /\ decodeReq > 0
  /\ decodeReq' = decodeReq - 1
  /\ IF is_closed
       THEN /\ ev' = Ev("on_decode", "none")
            /\ UNCHANGED << decoderVars, decodedQ, nextId, hist >>
       ELSE LET seeked == SeekPending
                p      == IF seeked THEN SeekPos(seekSlot) ELSE pos
                h1     == IF seeked
                            THEN [hist EXCEPT
                                    !.seekLog = Append(@, seekSlot)]
                            ELSE hist
            IN  IF p > Len(stream)
                  THEN \* no frame: close() and emit finished
                       /\ closed' = TRUE
                       /\ seekSlot' = NoSeek
                       /\ pos' = p
                       /\ hist' = [h1 EXCEPT !.finished = @ + 1]
                       /\ ev' = Ev("on_decode", "finished")
                       /\ UNCHANGED << decodedQ, nextId >>
                  ELSE IF ~Supported(stream[p])
                  THEN \* raise ValueError: nothing is emitted
                       /\ seekSlot' = IF seeked THEN NoSeek ELSE seekSlot
                       /\ pos' = p + 1
                       /\ hist' = [h1 EXCEPT !.errors = @ + 1,
                                              !.halted = TRUE]
                       /\ ev' = Ev("on_decode", "ValueError")
                       /\ UNCHANGED << closed, decodedQ, nextId >>
                  ELSE /\ seekSlot' = IF seeked THEN NoSeek ELSE seekSlot
                       /\ pos' = p + 1
                       /\ nextId' = nextId + 1
                       /\ decodedQ' = Append(decodedQ,
                            [pts |-> stream[p].pts, seeked |-> seeked,
                             id |-> nextId + 1])
                       /\ hist' = Note(h1, "decoded")
                       /\ ev' = [Ev("on_decode", "decoded") EXCEPT
                                   !.pts = stream[p].pts,
                                   !.seeked = seeked, !.id = nextId + 1]
                       /\ UNCHANGED closed
  /\ UNCHANGED << now, pacerVars, media, prepareReq, renderReq, tex, run,
                  seeks, resumes >>

\* --------------------------------------------------------- VideoTimer
\* on_decoded that re-bases on every frame, whatever its seek flag
DecodedClockAlways(ms, seeked) ==
  IF last_presented_at < 0
    THEN [clock |-> ClockStart(0), last |-> last_presented_at]
    ELSE [clock |-> ClockStart(ms - LookaheadMs), last |-> -1]

\* on_decoded without the branch that starts the clock on the first frame
DecodedClockLazy(ms, seeked) ==
  IF seeked /\ last_presented_at >= 0
    THEN [clock |-> ClockStart(ms - LookaheadMs), last |-> -1]
    ELSE [clock |-> clock, last |-> last_presented_at]

\* on_decoded whose seek branch re-bases the clock and keeps
\* _last_presented_at
DecodedClockKeepLast(ms, seeked) ==
  IF last_presented_at < 0
    THEN [clock |-> ClockStart(0), last |-> last_presented_at]
    ELSE IF seeked
      THEN [clock |-> ClockStart(ms - LookaheadMs), last |-> last_presented_at]
      ELSE [clock |-> clock, last |-> last_presented_at]

\* on_decoded: the clock and _last_presented_at after the first branch
DecodedClock(ms, seeked) ==
  IF last_presented_at < 0
    THEN [clock |-> ClockStart(0), last |-> last_presented_at]
    ELSE IF seeked
      THEN [clock |-> ClockStart(ms - LookaheadMs), last |-> -1]
      ELSE [clock |-> clock, last |-> last_presented_at]

\* on_decoded that skips only a strictly earlier timestamp
IsLateStrict(ms, last) == ms < last

\* on_decoded: the frame is skipped
IsLate(ms, last) == ms <= last

\* on_decoded without the `return` of the skip branch
SkipFallsThrough == FALSE

\* on_decoded: `return` after the skip, so that prepare is not emitted
SkipReturns == TRUE

\* decode connected to on_decode twice: one emit, two requests
DecodeEmitTwice(n) == n + 2

\* decode connected to no slot: the emit reaches nobody
DecodeEmitNone(n) == n

\* self.decode.emit() with the one slot bind_decoder connects:
\* the decode requests outstanding after the emit
DecodeEmit(n) == n + 1

\* a remaining time that forgets the time already elapsed
RemainingWhole == present_at

\* a deadline armed one look-ahead too early
RemainingEarly == present_at - Elapsed - LookaheadMs

\* on_prepared: time left until the presentation time
Remaining == present_at - Elapsed

\* stop that leaves the QTimer running
StopTimerNot == timer

\* VideoTimer.stop: the QTimer after self._timer.stop()
StopTimer == [active |-> FALSE, due |-> timer.due]

\* VideoTimer.on_decoded, the slot of the decoded signal
on_decoded ==
  /\ decodedQ # << >>
  /\ LET d    == Head(decodedQ)
         ms   == MsOf(d.pts)
         c    == DecodedClock(ms, d.seeked)
         late == IsLate(ms, c.last)
         fwd  == ~late \/ ~SkipReturns
         h1   == [hist EXCEPT
                    !.d0 = hist.d1,
                    !.d1 = [id |-> d.id, ms |-> ms, seeked |-> d.seeked,
                            skipped |-> late, rendered |-> FALSE,
                            t |-> now],
                    !.seekSince = @ \/ d.seeked]
         h2   == IF late THEN IssueDecode(h1, "on_decoded") ELSE h1
         h3   == IF fwd
                   THEN [Note(h2, "prepare") EXCEPT
                           !.forwarded = Append(@, d.id)]
                   ELSE h2
     IN  /\ decodedQ' = Tail(decodedQ)
         /\ clock' = c.clock
         /\ last_presented_at' = c.last
         /\ decodeReq' = IF late THEN DecodeEmit(decodeReq) ELSE decodeReq
         /\ present_at' = IF fwd THEN ms ELSE present_at
         /\ prepareReq' = IF fwd THEN Append(prepareReq, d.id)
                                 ELSE prepareReq
         /\ hist' = h3
         /\ ev' = [Ev("on_decoded", IF late THEN "decode" ELSE "prepare")
                     EXCEPT !.pts = ms, !.seeked = d.seeked, !.id = d.id]
  /\ UNCHANGED << now, timer, media, decoderVars, renderReq, tex, run,
                  nextId, seeks, resumes >>

\* the state change of VideoTimer._on_timeout, shared by the timer's
\* timeout and by the direct call of on_prepared
Present(h) ==
  /\ last_presented_at' = Elapsed
  /\ renderReq' = renderReq + 1
  /\ hist' = [Note(h, "render") EXCEPT
                !.r0 = h.r1,
                !.r1 = [id |-> tex', last |-> Elapsed,
                        seeked |-> h.d1.seeked /\ h.d1.id = tex',
                        afterSeek |-> h.seekSince],
                !.seekSince = FALSE]

\* VideoTimer._on_timeout fired by the QTimer
on_timeout ==
  /\ Quiescent
  /\ timer.active
  /\ now >= timer.due
  /\ timer' = [active |-> FALSE, due |-> timer.due]
  /\ tex' = tex
  /\ Present(hist)
  /\ ev' = [Ev("on_timeout", "render") EXCEPT !.id = tex]
  /\ UNCHANGED << now, clock, present_at, media, decoderVars, decodeReq,
                  decodedQ, prepareReq, run, nextId, seeks, resumes >>

\* the renderer finishes on_prepare and emits prepared:
\* VideoTimer.on_prepared
on_prepared ==
  /\ prepareReq # << >>
  /\ prepareReq' = Tail(prepareReq)
  /\ tex' = Head(prepareReq)
  /\ LET rem == Remaining
         h1  == Note(hist, "prepared")
     IN  /\ ev' = [Ev("on_prepared", IF rem <= 0 THEN "render" ELSE "timer")
                     EXCEPT !.rem = rem, !.id = Head(prepareReq)]
         /\ IF rem <= 0
              THEN /\ Present(h1)
                   /\ UNCHANGED timer
              ELSE /\ timer' = [active |-> TRUE, due |-> now + rem]
                   /\ hist' = h1
                   /\ UNCHANGED << last_presented_at, renderReq >>
  /\ UNCHANGED << now, clock, present_at, media, decoderVars, decodeReq,
                  decodedQ, run, nextId, seeks, resumes >>

\* the renderer finishes on_render and emits rendered:
\* VideoTimer.on_rendered
on_rendered ==
  /\ renderReq > 0
  /\ renderReq' = renderReq - 1
  /\ decodeReq' = DecodeEmit(decodeReq)
  /\ hist' = [IssueDecode(Note(hist, "rendered"), "on_rendered") EXCEPT
                !.rendered = Append(@, tex),
                !.d1 = [hist.d1 EXCEPT
                          !.rendered = @ \/ hist.d1.id = tex]]
  /\ ev' = [Ev("on_rendered", "decode") EXCEPT !.id = tex]
  /\ UNCHANGED << now, pacerVars, media, decoderVars, decodedQ, prepareReq,
                  tex, run, nextId, seeks, resumes >>

\* VideoTimer.stop, called by the play button while playing
stop ==
  /\ Quiescent
  /\ run = "playing"
  /\ timer' = StopTimer
  /\ run' = "paused"
  /\ ev' = Ev("stop", "none")
  /\ UNCHANGED << now, clock, last_presented_at, present_at, media,
                  decoderVars, chanVars, tex, nextId, seeks, resumes, hist >>

\* VideoTimer.start, called on file open and by the play button while
\* paused
start ==
  /\ Quiescent
  /\ run # "playing"
  /\ resumes < MaxResumes
  /\ resumes' = resumes + 1
  /\ decodeReq' = DecodeEmit(decodeReq)
  /\ run' = "playing"
  /\ hist' = [IssueDecode(hist, "start") EXCEPT !.halted = FALSE]
  /\ ev' = Ev("start", "decode")
  /\ UNCHANGED << now, pacerVars, media, decoderVars, decodedQ, prepareReq,
                  renderReq, tex, nextId, seeks >>

\* time passes
Tick ==
  /\ now + Quantum <= MaxTime
  /\ now' = now + Quantum
  /\ ev' = Ev("tick", "none")
  /\ UNCHANGED << pacerVars, media, decoderVars, chanVars, tex, run,
                  nextId, seeks, resumes, hist >>

Next ==
  \/ start
  \/ stop
  \/ seek
  \/ close
  \/ on_decode
  \/ on_decoded
  \/ on_prepared
  \/ on_timeout
  \/ on_rendered
  \/ Tick

Spec == Init /\ [][Next]_vars

\* ----------------------------------------------------- scenario B
\* tests/test_videotimer.py: DummyDecoder and DummyRenderer sleep 0.1 s
\* in on_decode, on_prepare and on_render
StageMs == 100

\* a first frame at 1.0 s and a second frame at 1.0, 1.02, 1.05 or 1.1 s
ScenStreams ==
  { << Frame(2000, "yuv420p", TRUE), Frame(p2, "yuv420p", TRUE) >> :
      p2 \in {2000, 2040, 2100, 2200} }

\* how long after its deadline the QTimer fires, ms
ScenLate == {0, 25, 50}

InitB == InitOn(ScenStreams) /\ plane = NoPlane /\ arr = NoArr

\* a slot of the decoder or of the renderer works for StageMs
B_stage ==
  /\ decodeReq + Len(prepareReq) + renderReq > 0
  /\ decodeReq > 0 => pos <= Len(stream)
  /\ decodedQ = << >>
  /\ ev.op # "stage"
  /\ now' = now + StageMs
  /\ ev' = Ev("stage", "none")
  /\ UNCHANGED << pacerVars, media, decoderVars, chanVars, tex, run,
                  nextId, seeks, resumes, hist >>

\* the event loop waits for the armed deadline
B_wait ==
  /\ Quiescent
  /\ timer.active
  /\ ev.op # "wait"
  /\ \E late \in ScenLate : now' = timer.due + late
  /\ ev' = Ev("wait", "none")
  /\ UNCHANGED << pacerVars, media, decoderVars, chanVars, tex, run,
                  nextId, seeks, resumes, hist >>

B_start == start
\* DummyDecoder.on_decode sleeps only when it has a frame to emit
B_on_decode == (ev.op = "stage" \/ pos > Len(stream)) /\ on_decode
B_on_decoded == on_decoded
B_on_prepared == ev.op = "stage" /\ on_prepared
B_on_timeout == ev.op = "wait" /\ on_timeout
B_on_rendered == ev.op = "stage" /\ on_rendered

NextB ==
  \/ B_start
  \/ B_stage
  \/ B_wait
  \/ B_on_decode
  \/ B_on_decoded
  \/ B_on_prepared
  \/ B_on_timeout
  \/ B_on_rendered

SpecB == InitB /\ [][NextB]_vars

\* ------------------------------------------------- _remove_padding
MaxStride == 3
MaxHeight == 2

\* the bytes of an exhaustively enumerated plane
Bytes == {0, 255}

\* a buffer of n distinct-looking bytes
Pattern(n) == [i \in 1..n |-> (i * 7) % 256]

\* planes as the decode library hands them out: line_size >= width and a
\* buffer of line_size bytes per row
SmallPlanes ==
  UNION { UNION { UNION {
    { [line_size |-> ls, width |-> w, buf |-> b] : b \in [1..(ls * h) -> Bytes] }
      : w \in 1..ls } : h \in 1..MaxHeight } : ls \in 1..MaxStride }

BigPlanes ==
  { [line_size |-> g[1], width |-> g[2], buf |-> Pattern(g[1] * g[3])] :
      g \in { <<144, 128, 2>>, <<144, 130, 2>>, <<144, 144, 2>>,
              <<128, 128, 1>>, <<160, 130, 1>>, <<160, 144, 2>>,
              <<32, 17, 2>>, <<32, 32, 2>>, <<32, 16, 3>>,
              <<16, 15, 2>>, <<16, 16, 3>>, <<16, 1, 2>> } }

Planes == SmallPlanes \cup BigPlanes

\* numpy: a C-order reshape(-1, w) of a flat array, lost bytes being an
\* error the caller checks with Fits
ReshapeF(a, w) ==
  [r \in 1..(Len(a) \div w) |->
     [c \in 1..w |-> a[(c - 1) * (Len(a) \div w) + r]]]

Reshape(a, w) ==
  [r \in 1..(Len(a) \div w) |-> SubSeq(a, (r - 1) * w + 1, r * w)]

Fits(a, w) == w > 0 /\ Len(a) % w = 0

\* a slice that keeps the columns up to the next multiple of 16
SliceColsAligned(rows, w) ==
  LET a == ((w + 15) \div 16) * 16
  IN  [r \in 1..Len(rows) |->
         SubSeq(rows[r], 1, IF a < Len(rows[r]) THEN a ELSE Len(rows[r]))]

\* numpy: rows[:, :w]
SliceCols(rows, w) ==
  [r \in 1..Len(rows) |->
     SubSeq(rows[r], 1, IF w < Len(rows[r]) THEN w ELSE Len(rows[r]))]

RECURSIVE Flatten(_)
Flatten(rows) ==
  IF rows = << >> THEN << >> ELSE Head(rows) \o Flatten(Tail(rows))

\* Decoder._remove_padding
remove_padding(p) ==
  LET buf_width == p.line_size
      bytes_per_pixel == 1
      frame_width == p.width * bytes_per_pixel
      flat == IF buf_width # frame_width
                THEN Flatten(SliceCols(Reshape(p.buf, buf_width), frame_width))
                ELSE p.buf
  IN  IF Fits(flat, frame_width)
        THEN [st |-> "ok", rows |-> Reshape(flat, frame_width)]
        ELSE [st |-> "ValueError", rows |-> << >>]

\* on_decode maps _remove_padding over the planes of the frame
RemovePadding ==
  /\ arr.st = "none"
  /\ arr' = remove_padding(plane)
  /\ UNCHANGED << now, pacerVars, stream, plane, decoderVars, chanVars, tex,
                  run, nextId, seeks, resumes, ev, hist >>

InitPlane == InitOn({StreamA}) /\ plane \in Planes /\ arr = NoArr

NextPlane == RemovePadding

SpecPlane == InitPlane /\ [][NextPlane]_vars

\* ------------------------------------------------ uninterrupted playback
\* playback of a video whose frames are all accepted, without pause and
\* without close: the decoder answers every decode request, the renderer
\* acknowledges every prepare and render request, time passes while a
\* deadline is armed and the timer fires once its deadline is reached
LiveStreams ==
  { s \in Streams \cup {SubSeq(StreamB, 1, 2)} :
      \A i \in 1..Len(s) : Supported(s[i]) }

InitLive == InitOn(LiveStreams) /\ plane = NoPlane /\ arr = NoArr

\* the event loop waits for the armed deadline
Wait ==
  /\ timer.active
  /\ now < timer.due
  /\ now' = now + Quantum
  /\ ev' = Ev("tick", "none")
  /\ UNCHANGED << pacerVars, media, decoderVars, chanVars, tex, run,
                  nextId, seeks, resumes, hist >>

NextLive ==
  \/ start
  \/ seek
  \/ on_decode
  \/ on_decoded
  \/ on_prepared
  \/ on_timeout
  \/ on_rendered
  \/ Tick
  \/ Wait

SpecLive ==
  /\ InitLive
  /\ [][NextLive]_vars
  /\ WF_vars(on_decode)
  /\ WF_vars(on_decoded)
  /\ WF_vars(on_prepared)
  /\ WF_vars(on_timeout)
  /\ WF_vars(on_rendered)
  /\ WF_vars(Wait)

\* ---------------------------------------------------------- properties
RenderIssued ==
  \/ ev.op = "on_timeout"
  \/ ev.op = "on_prepared" /\ ev.out = "render"

C2_AtMostOne == Outstanding <= 1

C2_Witness ==
  /\ Outstanding = 1
  /\ resumes >= 2
  /\ seeks >= 1
  /\ Len(hist.rendered) >= 1

\* C3: a frame decoded without the seek flag right after a frame that was
\* rendered, with a timestamp not greater than that frame's, is not
\* forwarded to prepare and is never rendered; its decoded event issues
\* exactly one decode request.
C3_SkipCase ==
  /\ hist.d0.id # 0
  /\ hist.d0.rendered
  /\ ~hist.d1.seeked
  /\ hist.d1.ms <= hist.d0.ms

\* C3: in that case the second frame is skipped, with one decode request
C3_Skip ==
  C3_SkipCase =>
    /\ hist.d1.skipped
    /\ Count(hist.forwarded, hist.d1.id) = 0
    /\ Count(hist.rendered, hist.d1.id) = 0
    /\ Count(prepareReq, hist.d1.id) = 0
    /\ tex # hist.d1.id
    /\ ev.op = "on_decoded" =>
         /\ ev.out = "decode"
         /\ decodeReq = 1
         /\ prepareReq = << >>
         /\ renderReq = 0

C3_Witness ==
  /\ C3_SkipCase
  /\ ev.op = "on_decoded"
  /\ ev.out = "decode"

\* C4: at a render request that follows an earlier one, with no seeked
\* frame decoded between the two, the value recorded in
\* _last_presented_at is strictly greater than the value recorded at the
\* earlier render request.
C4_Monotonic ==
  (RenderIssued /\ hist.r0.id # 0 /\ ~hist.r1.afterSeek) =>
    /\ last_presented_at = hist.r1.last
    /\ hist.r1.last > hist.r0.last

C4_Witness ==
  /\ RenderIssued
  /\ hist.r0.id # 0
  /\ ~hist.r1.afterSeek
  /\ hist.r1.last > hist.r0.last

\* C5: every decoded event with seeked = TRUE and timestamp T re-bases
\* the clock to read T - 30 ms and sets _last_presented_at to -1; at the
\* following prepared event the remaining time is 30 ms minus the time
\* elapsed since that decoded event.
C5_Rebase ==
  /\ (ev.op = "on_decoded" /\ ev.seeked) =>
       /\ Elapsed = ev.pts - LookaheadMs
       /\ last_presented_at = -1
  /\ (ev.op = "on_prepared" /\ hist.d1.seeked /\ ev.id = hist.d1.id) =>
       ev.rem = LookaheadMs - (now - hist.d1.t)

\* C6: no frame is lost or duplicated by stop and start: a frame
\* forwarded to prepare is forwarded once and rendered at most once, and
\* it has been rendered exactly once by the time a later frame is
\* forwarded to prepare.
C6_NoFrameLost ==
  \A i \in 1..Len(hist.forwarded) :
    LET id == hist.forwarded[i]
    IN  /\ Count(hist.forwarded, id) = 1
        /\ Count(hist.rendered, id) <= 1
        /\ i < Len(hist.forwarded) => Count(hist.rendered, id) = 1

\* C7: stop cancels an armed deadline and changes nothing else; from
\* then until start no request is issued or outstanding, no deadline is
\* armed, and the clock, the timestamps and the prepared frame stay as
\* they were.
C7_Step ==
  /\ run' = "paused" =>
       /\ ~timer'.active
       /\ Outstanding' = 0
       /\ UNCHANGED << chanVars, clock, last_presented_at, present_at, tex >>
       /\ hist'.forwarded = hist.forwarded
       /\ hist'.rendered = hist.rendered
  /\ (run = "playing" /\ run' = "paused") => UNCHANGED decoderVars

C8_Step ==
  hist.finished >= 1 =>
    /\ closed
    /\ closed'
    /\ hist'.finished = hist.finished
    /\ nextId' = nextId
    /\ decodedQ' = decodedQ
    /\ decodeReq' < decodeReq => UNCHANGED decoderVars

\* C8: every step after finished is a C8_Step
C8_EndOfStream == [][C8_Step]_vars

C8_Witness ==
  /\ hist.finished = 1
  /\ ev.op = "on_decode"
  /\ ev.out = "none"
  /\ closed

\* C9: close completes without error whether or not the decoder is
\* already closed.
C9_CloseIdempotent == ev.op = "close" => ev.out = "none"

\* C10: seek only stores its target in the slot; a decode request on an
\* open decoder applies the last target requested, once, and clears the
\* slot; a target is applied by nothing else.
LastReq == IF hist.reqs = << >> THEN NoSeek ELSE hist.reqs[Len(hist.reqs)]

C10_Step ==
  /\ seeks' # seeks =>
       /\ seekSlot' = hist'.reqs[Len(hist'.reqs)]
       /\ hist'.seekLog = hist.seekLog
       /\ UNCHANGED << pos, closed, chanVars, nextId, pacerVars, tex >>
  /\ (decodeReq' < decodeReq /\ ~closed /\ seekSlot # NoSeek) =>
       /\ seekSlot = LastReq
       /\ hist'.seekLog = Append(hist.seekLog, LastReq)
       /\ seekSlot' = NoSeek
       /\ pos' \in {SeekPos(LastReq), SeekPos(LastReq) + 1}
  /\ ~(decodeReq' < decodeReq /\ ~closed /\ seekSlot # NoSeek) =>
       hist'.seekLog = hist.seekLog

\* C10: every step is a C10_Step
C10_SeekLazy == [][C10_Step]_vars

C10_Witness ==
  /\ Len(hist.reqs) = 2
  /\ hist.reqs[1] # hist.reqs[2]
  /\ hist.seekLog = << hist.reqs[2] >>
  /\ ev.op = "on_decode"
  /\ ev.seeked

\* C11: a decoded event carries seeked = TRUE exactly when the request
\* that emitted it found a pending seek and applied it; the request
\* clears the slot, and only a seek call fills it again.
C11_Step ==
  /\ nextId' # nextId =>
       LET d == decodedQ'[Len(decodedQ')]
       IN  /\ d.seeked = (seekSlot # NoSeek)
           /\ d.seeked <=> hist'.seekLog # hist.seekLog
           /\ seekSlot' = NoSeek
  /\ (seekSlot = NoSeek /\ seekSlot' # NoSeek) => seeks' = seeks + 1

\* C11: every step is a C11_Step
C11_SeekedFlag == [][C11_Step]_vars

C11_Witness ==
  /\ ev.op = "on_decode"
  /\ ev.out = "decoded"
  /\ ~ev.seeked
  /\ hist.d1.seeked
  /\ Len(hist.seekLog) = 1

\* the frame a decode request on an open decoder pulls
Pulled == IF seekSlot # NoSeek THEN SeekPos(seekSlot) ELSE pos

C12_Step ==
  /\ (decodeReq' < decodeReq /\ ~closed /\ Pulled <= Len(stream)) =>
       LET f == stream[Pulled]
       IN  /\ f.fmt \in {"yuv420p", "yuvj420p"} =>
                /\ ev'.out = "decoded"
                /\ nextId' = nextId + 1
                /\ decodedQ' = Append(decodedQ,
                     [pts |-> f.pts, seeked |-> seekSlot # NoSeek,
                      id |-> nextId + 1])
           /\ f.fmt \notin {"yuv420p", "yuvj420p"} =>
                /\ ev'.out = "ValueError"
                /\ decodedQ' = decodedQ
                /\ nextId' = nextId
                /\ hist'.finished = hist.finished
                /\ ~closed'
                /\ pos' = Pulled + 1
                /\ Outstanding' = 0
                /\ ~timer'.active
  /\ (hist.halted /\ hist'.halted) =>
       /\ UNCHANGED << chanVars, pos, nextId >>
       /\ Outstanding' = 0
       /\ ~timer'.active

C13_Skipped ==
  (ev.op = "on_decoded" /\ ev.id = 2 /\ ev.pts = 1050) =>
    /\ ev.pts <= last_presented_at
    /\ ev.out = "decode"

\* C13 as amended: the first frame's render request records
\* _last_presented_at = 1000 plus the lateness of the timer; the second
\* frame is skipped exactly when its pts_ms is not greater than that
\* value.  With the timer on time the frame at 1.05 s is forwarded to
\* prepare, and its prepared event finds remaining = 1050 - 1300 <= 0 and
\* issues the render request at once.
C13_ScenarioB ==
  /\ hist.r1.id = 1 => hist.r1.last \in {1000 + l : l \in ScenLate}
  /\ (ev.op = "on_decoded" /\ ev.id = 2) =>
       /\ hist.r1.id = 1
       /\ last_presented_at = hist.r1.last
       /\ ev.out = "decode" <=> ev.pts <= hist.r1.last
       /\ ev.out = "prepare" <=> ev.pts > hist.r1.last
  /\ (ev.id = 2 /\ ev.pts = 1050 /\ hist.r0.id = 0 /\ hist.r1.last = 1000) =>
       /\ ev.op = "on_decoded" => ev.out = "prepare"
  /\ (ev.op = "on_prepared" /\ ev.id = 2 /\ hist.d1.ms = 1050
        /\ hist.r0.last = 1000) =>
       /\ ev.rem = 1050 - 1300
       /\ ev.out = "render"

C13_Witness ==
  /\ ev.op = "on_prepared"
  /\ ev.id = 2
  /\ hist.d1.ms = 1050
  /\ hist.r0.last = 1000
  /\ ev.out = "render"
  /\ renderReq = 1

Height(p) == Len(p.buf) \div p.line_size
RoundUp16(w) == ((w + 15) \div 16) * 16
RowWidths == { Len(arr.rows[r]) : r \in 1..Len(arr.rows) }

\* C14 as stated: when the stride differs from the logical width the
\* returned rows are as wide as the logical width rounded up to the next
\* multiple of 16 (144/128 gives 128, 144/130 gives 144).
C14_Rounded16 ==
  (arr.st # "none" /\ plane.line_size # plane.width) =>
    /\ arr.st = "ok"
    /\ RowWidths = {RoundUp16(plane.width)}

\* C14 as amended: when the stride differs from the logical width the
\* returned plane has one row per buffer row, each exactly the logical
\* width wide and holding the first `width` bytes of its buffer row, with
\* no rounding: 144/128 gives row width 128 and 144/130 gives 130.
C14_Sliced ==
  (arr.st # "none" /\ plane.line_size # plane.width) =>
    /\ arr.st = "ok"
    /\ Len(arr.rows) = Height(plane)
    /\ RowWidths = {plane.width}
    /\ \A r \in 1..Len(arr.rows) : \A c \in 1..plane.width :
         arr.rows[r][c] = plane.buf[(r - 1) * plane.line_size + c]
    /\ (plane.line_size = 144 /\ plane.width = 128) => RowWidths = {128}
    /\ (plane.line_size = 144 /\ plane.width = 130) => RowWidths = {130}

C14_Witness ==
  /\ arr.st = "ok"
  /\ plane.line_size = 144
  /\ plane.width = 130
  /\ RowWidths = {130}
  /\ Len(arr.rows) = 2

\* C15: when the stride equals the logical width the returned plane has
\* rows of the logical width and the bytes of the buffer in the same
\* row-major order.
C15_NoOp ==
  (arr.st # "none" /\ plane.line_size = plane.width) =>
    /\ arr.st = "ok"
    /\ RowWidths = {plane.width}
    /\ Len(arr.rows) * plane.width = Len(plane.buf)
    /\ Flatten(arr.rows) = plane.buf

C15_Witness ==
  /\ arr.st = "ok"
  /\ plane.line_size = plane.width
  /\ plane.width = 3
  /\ Len(arr.rows) = 2
  /\ arr.rows[1] # arr.rows[2]
  /\ arr.rows[1][1] # arr.rows[1][2]

\* C16 as stated: a seek requested while a render deadline is armed
\* cancels the deadline, and the timer does not fire for the waiting
\* frame.
C16_CancelStep ==
  /\ seeks' # seeks => ~timer'.active
  /\ ev'.op = "on_timeout" => seekSlot = NoSeek

C16_Step ==
  /\ seeks' # seeks =>
       /\ timer' = timer
       /\ seekSlot' # NoSeek
       /\ UNCHANGED << clock, last_presented_at, present_at, chanVars, tex >>
  /\ (timer.active /\ ~timer'.active) => ev'.op \in {"stop", "on_timeout"}
  /\ (ev'.op = "on_timeout" /\ seekSlot # NoSeek) =>
       /\ timer.active
       /\ renderReq' = renderReq + 1
       /\ hist'.r1.id = tex
       /\ seekSlot' = seekSlot

C17_TieSkipped ==
  (ev.op = "on_decoded" /\ ~ev.seeked) =>
    /\ ev.out = "prepare" <=> ev.pts > last_presented_at
    /\ ev.pts = last_presented_at =>
         /\ ev.out = "decode"
         /\ hist.d1.skipped
         /\ decodeReq = 1
         /\ prepareReq = << >>
         /\ Count(hist.forwarded, ev.id) = 0

C17_Witness ==
  /\ ev.op = "on_decoded"
  /\ ~ev.seeked
  /\ ev.pts = last_presented_at
  /\ ev.out = "decode"
  /\ decodeReq = 1

\* C18: the clock is not running until the first decoded event has been
\* handled, it reads 0 at that event, and every prepared event finds a
\* started clock.
C18_ClockStart ==
  /\ hist.d1.id = 0 => ~clock.valid
  /\ (ev.op = "on_decoded" /\ hist.d0.id = 0) =>
       /\ clock.valid
       /\ Elapsed = 0
  /\ ev.op = "on_prepared" =>
       /\ clock.valid
       /\ ev.rem = present_at - Elapsed
  /\ timer.active => clock.valid

C18_Witness ==
  /\ ev.op = "on_decoded"
  /\ hist.d0.id = 0
  /\ hist.d1.id # 0
  /\ now > 0
  /\ clock.valid
  /\ Elapsed = 0

\* C19: in every step _last_presented_at stays or increases, except in
\* the handling of a decoded event with seeked = TRUE, which brings it to
\* -1.
C19_Step ==
  \/ last_presented_at' >= last_presented_at
  \/ /\ ev'.op = "on_decoded"
     /\ ev'.seeked
     /\ last_presented_at' = -1

C19_LastMonotone == [][C19_Step]_vars

C19_Witness ==
  /\ ev.op = "on_decoded"
  /\ ev.seeked
  /\ last_presented_at = -1
  /\ hist.r1.id # 0
  /\ hist.r1.last > 0

\* C20: a prepared event computes remaining = _present_at - elapsed; with
\* remaining <= 0 the render request is issued in the same step and the
\* timer is not armed, otherwise the timer is armed for remaining ms and
\* the render request is issued only when it fires.
C20_Step ==
  /\ ev'.op = "on_prepared" /\ prepareReq' # prepareReq =>
       LET rem == present_at - (clock.base + (now - clock.t0))
       IN  /\ ev'.rem = rem
           /\ rem <= 0 =>
                /\ renderReq' = renderReq + 1
                /\ timer' = timer
                /\ ~timer'.active
                /\ last_presented_at' = present_at - rem
           /\ rem > 0 =>
                /\ renderReq' = renderReq
                /\ timer'.active
                /\ timer'.due = now + rem
                /\ last_presented_at' = last_presented_at
  /\ renderReq' > renderReq =>
       \/ ev'.op = "on_prepared" /\ ev'.rem <= 0
       \/ /\ ev'.op = "on_timeout"
          /\ timer.active
          /\ now >= timer.due
          /\ ~timer'.active

C20_Prepared == [][C20_Step]_vars

C20_Witness ==
  /\ ev.op = "on_prepared"
  /\ ev.rem < 0
  /\ ev.out = "render"
  /\ renderReq = 1
  /\ ~timer.active
  /\ Len(hist.rendered) >= 1


\* C21: the first decoded event of a session and every decoded event
\* with seeked = TRUE (timestamps are non-negative) forwards its frame to
\* prepare and issues no decode request, whatever _last_presented_at was
\* before the event.
C21_Step ==
  (ev'.op = "on_decoded" /\ decodedQ' # decodedQ
     /\ (ev'.seeked \/ hist.d1.id = 0)) =>
    /\ ev'.pts >= 0
    /\ ev'.out = "prepare"
    /\ prepareReq' = Append(prepareReq, ev'.id)
    /\ present_at' = ev'.pts
    /\ decodeReq' = decodeReq
    /\ ~hist'.d1.skipped

C21_SeekedForwarded == [][C21_Step]_vars

C21_Witness ==
  /\ ev.op = "on_decoded"
  /\ ev.seeked
  /\ ev.out = "prepare"
  /\ hist.r1.id # 0
  /\ ev.pts <= hist.r1.last
  /\ last_presented_at = -1


\* C27: a decode request handled by an open Decoder has exactly one of
\* three outcomes: one decoded event, one finished event with the Decoder
\* closed, or a ValueError with nothing emitted; and it leaves the seek
\* slot empty whichever outcome occurs.
C27_Decoded ==
  /\ nextId' = nextId + 1
  /\ Len(decodedQ') = Len(decodedQ) + 1
  /\ ev'.out = "decoded"

C27_Finished ==
  /\ hist'.finished = hist.finished + 1
  /\ closed'
  /\ ev'.out = "finished"

C27_Error ==
  /\ hist'.errors = hist.errors + 1
  /\ ev'.out = "ValueError"

C27_Step ==
  (decodeReq' < decodeReq /\ ~closed) =>
    /\ decodeReq' = decodeReq - 1
    /\ \/ /\ C27_Decoded
          /\ hist'.finished = hist.finished
          /\ hist'.errors = hist.errors
          /\ ~closed'
       \/ /\ C27_Finished
          /\ decodedQ' = decodedQ
          /\ nextId' = nextId
          /\ hist'.errors = hist.errors
       \/ /\ C27_Error
          /\ decodedQ' = decodedQ
          /\ nextId' = nextId
          /\ hist'.finished = hist.finished
          /\ ~closed'
    /\ seekSlot' = NoSeek

C27_OneOutcome == [][C27_Step]_vars

C27_Witness ==
  /\ ev.op = "on_decode"
  /\ ev.out = "ValueError"
  /\ ~closed
  /\ seekSlot = NoSeek
  /\ Len(hist.seekLog) = 1
  /\ nextId = 0


\* C26: while a render deadline is armed no decode, prepare or render
\* request is outstanding and no decoded or prepared event is waiting to
\* be delivered; a deadline is armed only when none is armed, and an
\* armed deadline that fires is disarmed by the same step, which issues
\* exactly one render request.
C26_Idle ==
  timer.active =>
    /\ decodeReq = 0
    /\ decodedQ = << >>
    /\ prepareReq = << >>
    /\ renderReq = 0

C26_Step ==
  /\ C26_Idle
  /\ C26_Idle'
  /\ (timer'.active /\ (~timer.active \/ timer'.due # timer.due)) =>
       /\ ~timer.active
       /\ ev'.op = "on_prepared"
  /\ ev'.op = "on_timeout" =>
       /\ timer.active
       /\ ~timer'.active
       /\ renderReq' = renderReq + 1
  /\ (~timer.active /\ ~timer'.active /\ renderReq' > renderReq) =>
       ev'.op = "on_prepared"

C24_Step ==
  /\ (ev'.op = "on_decoded" /\ ev'.out = "prepare"
        /\ decodedQ' # decodedQ) =>
       /\ present_at' = ev'.pts
       /\ hist'.forwarded = Append(hist.forwarded, ev'.id)
  /\ renderReq' > renderReq =>
       LET reading == clock.base + (now - clock.t0)
       IN  /\ clock' = clock
           /\ now' = now
           /\ present_at' = present_at
           /\ reading >= present_at
           /\ last_presented_at' = reading
           /\ last_presented_at' >= present_at
           /\ hist.forwarded # << >>
           /\ hist'.r1.id = hist.forwarded[Len(hist.forwarded)]
           /\ tex' = hist'.r1.id

C24_NotEarly == [][C24_Step]_vars

C24_Witness ==
  /\ ev.op = "on_timeout"
  /\ last_presented_at = present_at
  /\ present_at > 0
  /\ hist.r0.id # 0
  /\ hist.r1.afterSeek


\* C25: after the first decoded event of a session no later decoded
\* event restarts the clock at zero; the epoch of the clock changes only
\* through the re-base of an event with seeked = TRUE.
C25_Step ==
  (ev'.op = "on_decoded" /\ decodedQ' # decodedQ /\ hist.d1.id # 0) =>
    \/ clock' = clock
    \/ /\ ev'.seeked
       /\ clock' = [valid |-> TRUE, base |-> ev'.pts - LookaheadMs,
                    t0 |-> now]

C25_NoRestart == [][C25_Step]_vars


\* C22: playback started by start() on a video whose frames are all
\* accepted, without pause, eventually reaches end-of-stream: the Decoder
\* has emitted finished once and is closed, and from then on no request is
\* outstanding and no deadline is armed, whatever frames were skipped and
\* whatever seeks were requested.
C22_Ended ==
  /\ closed
  /\ hist.finished = 1
  /\ Outstanding = 0
  /\ ~timer.active

C22_Terminates == (run = "playing") ~> []C22_Ended

C22_Witness ==
  /\ C22_Ended
  /\ Len(hist.seekLog) >= 1
  /\ Len(hist.rendered) >= 2
  /\ Len(hist.rendered) < nextId

\* the frame forwarded last has not been rendered yet
C23_Pending ==
  /\ hist.forwarded # << >>
  /\ Count(hist.rendered, hist.forwarded[Len(hist.forwarded)]) = 0

\* C23: every frame forwarded to prepare is eventually rendered, and the
\* rendered event of a frame issues the next decode request; a seek
\* requested meanwhile does not prevent it.  A frame is forwarded only
\* when the frame forwarded before it has been rendered, so that the frame
\* forwarded last stands for every forwarded frame.
C23_RenderedStep ==
  /\ hist'.forwarded # hist.forwarded =>
       /\ ~C23_Pending
       /\ Len(hist'.forwarded) = Len(hist.forwarded) + 1
       /\ C23_Pending'
  /\ hist'.rendered # hist.rendered =>
       /\ C23_Pending
       /\ hist'.rendered = Append(hist.rendered, tex)
       /\ tex = hist.forwarded[Len(hist.forwarded)]
       /\ decodeReq' = decodeReq + 1
       /\ ~C23_Pending'

C23_Rendered ==
  /\ C23_Pending ~> ~C23_Pending
  /\ [][C23_RenderedStep]_vars

C23_Witness ==
  /\ ev.op = "on_rendered"
  /\ seekSlot # NoSeek
  /\ hist.rendered # << >>
  /\ hist.rendered[Len(hist.rendered)] = tex
  /\ decodeReq = 1

=============================================================================
